---- MODULE Spec2Model ----
(***************************************************************************)
(* The scrape pipeline of scripts/igdb.py: handle_scrape starts one task   *)
(* per playlist in an asyncio.TaskGroup; each task asks the catalog for    *)
(* the item count, pages the playlist into multiquery batches, fetches the *)
(* batches as further tasks of the same group, merges, sorts and writes    *)
(* one JSON file.  Every request goes through query_endpoint: a bounded    *)
(* semaphore, a strict rate limiter and the two backoff decorators.        *)
(*                                                                         *)
(* Time is counted in ticks; the limiter's period 1/MAX_QUERY_RATE is      *)
(* TicksPerInterval ticks.  Backoff sleeps (exponential with full jitter)  *)
(* and network latencies take any amount of time.                          *)
(***************************************************************************)
EXTENDS Integers, Sequences, FiniteSets, TLC

(* ------------------------------ bounds -------------------------------- *)

\* Transient statuses the catalog answers to one request of a run (it
\* answers them to at most one): in a run of a single playlist, and in a
\* run of several.
MaxRetryable == 5
MaxRetryableShared == 1

\* Clock resolution: ticks in one limiter period of 1/MAX_QUERY_RATE seconds.
TicksPerInterval == 2

\* Size of the request semaphore.  The deployment value is 8; the model is
\* checked with a smaller gate so that more callers than slots exist.
MAX_ACTIVE_QUERIES == 2

\* The pipeline of lines 213-255 on its own: item counts, page sizes, and
\* the catalog sizes up to which every assignment of names is tried.
MaxCount == 45
MaxPageSize == 3
MaxNamed == 3

\* Query construction: the longest list of field paths given as `fields`.
MaxFields == 2

(* ------------------------- program constants -------------------------- *)

\* asynciolimiter.StrictLimiter(MAX_QUERY_RATE): admissions per second.
MAX_QUERY_RATE == 4

\* Sub-queries per multiquery (itertools.batched(..., MULTIQUERY_MAX)).
MULTIQUERY_MAX == 20

\* Playlist.__init__'s default `limit`: the page size of a playlist query.
DEFAULT_LIMIT == 500

\* backoff.on_exception(..., max_tries=5, ...)
max_tries == 5

RETRY_CODES == {408, 429, 500, 502, 503, 504}

(* ------------------------------ inputs -------------------------------- *)

\* The catalog's playlists (PLAYLISTS), and the tuples of playlists a run
\* is started for (handle_scrape's `playlists`).
Playlists == {"A", "B"}
Runs == {{"A"}, {"A", "B"}}

\* The statuses the catalog's documentation calls transient.
TransientStatuses == {408, 429, 500, 502, 503, 504}

\* Status codes the catalog answers with: success, one error that is not
\* transient, and the transient ones.
Statuses == {200, 404} \cup TransientStatuses

\* Exceptions httpx raises from client.post when no status is obtained.
\* query_igdb never calls raise_for_status, so HTTPStatusError is not among
\* them.
TransportErrors == {"ConnectError", "ReadTimeout"}

\* `count` values of a well-formed games/count body.
CountValues == {0, 1200, 10001}

\* Responses to games/count: with status 200 a malformed body or
\* {"count": n}; with an error status no JSON, a JSON object without
\* `count`, or a JSON object with one.
CountAnswers ==
    {[status |-> 200, body |-> k, count |-> 0] :
        k \in {"notjson", "notobject", "nocount", "nonnumeric"}}
    \cup {[status |-> 200, body |-> "count", count |-> c] : c \in CountValues}
    \cup {[status |-> s, body |-> "notjson", count |-> 0] : s \in Statuses \ {200}}
    \cup {[status |-> 404, body |-> "nocount", count |-> 0],
          [status |-> 404, body |-> "count", count |-> 0]}

\* Bodies of a multiquery response that are not an array of sub-results
\* with a `result` array each: a content type other than application/json,
\* a JSON object, a sub-result without `result`, and the JSON string "".
MalformedBatchBodies == {"notjson", "notarray", "noresult", "emptystring"}

\* Responses to a multiquery: with status 200 the array of sub-results or a
\* malformed body; with an error status no JSON.
BatchAnswers ==
    {[status |-> 200, body |-> k, count |-> 0] :
        k \in {"items"} \cup MalformedBatchBodies}
    \cup {[status |-> s, body |-> "notjson", count |-> 0] : s \in Statuses \ {200}}

\* The limiter's period, 1/MAX_QUERY_RATE seconds, in ticks.
TicksPerSecond == TicksPerInterval * MAX_QUERY_RATE
Interval == TicksPerSecond \div MAX_QUERY_RATE

(* ------------------------------- pager -------------------------------- *)

Min(a, b) == IF a < b THEN a ELSE b

\* plan_pages with every window of the full page size, the last included.
plan_pages_unclamped(total_count, page_size) ==
    LET n == (total_count + page_size - 1) \div page_size
    IN  [k \in 1 .. n |->
            [offset |-> (k - 1) * page_size, limit |-> page_size]]

\* The pager: the windows (offset, limit) that cover [0, total_count) with
\* pages of page_size, the last one clamped to the remainder.
plan_pages(total_count, page_size) ==
    LET n == (total_count + page_size - 1) \div page_size
    IN  [k \in 1 .. n |->
            [offset |-> (k - 1) * page_size,
             limit  |-> Min(page_size, total_count - (k - 1) * page_size)]]

\* Playlist.query_pages(count): the paging windows of a playlist, whose
\* page size is the `limit` of its query.
query_pages(count) == plan_pages(count, DEFAULT_LIMIT)

\* batched without its final short chunk.
batched_full_chunks(seq, n) ==
    LET m == Len(seq) \div n
    IN  [b \in 1 .. m |-> SubSeq(seq, (b - 1) * n + 1, b * n)]

\* itertools.batched(seq, n): consecutive chunks of at most n elements.
batched(seq, n) ==
    LET m == (Len(seq) + n - 1) \div n
    IN  [b \in 1 .. m |-> SubSeq(seq, (b - 1) * n + 1, Min(b * n, Len(seq)))]

\* The decimal digits of an int, as an f-string formats it.
RECURSIVE str_int(_)
str_int(n) ==
    IF n < 0 THEN <<"-">> \o str_int(0 - n)
    ELSE IF n < 10
    THEN <<(<<"0", "1", "2", "3", "4", "5", "6", "7", "8", "9">>)[n + 1]>>
    ELSE str_int(n \div 10) \o str_int(n % 10)

\* The title of the playlist, as its characters.
Title == <<"D", "O", "S">>

\* Label without the window: the title alone.
LabelTitleOnly(q) == Title

\* The key of a sub-query in its multiquery, line 216:
\* f"{playlist.title} ({q.offset}-{q.offset + q.limit - 1})", as its
\* characters.
Label(q) ==
    Title \o <<" ", "(">> \o str_int(q.offset) \o <<"-">>
          \o str_int(q.offset + q.limit - 1) \o <<")">>

\* The dict comprehension of line 216 over one batch: the entries in
\* insertion order; an entry whose key is already there replaces the value
\* and keeps the place of the first.
RECURSIVE Multiquery(_)
Multiquery(batch) ==
    IF batch = <<>> THEN <<>>
    ELSE LET d == Multiquery(SubSeq(batch, 1, Len(batch) - 1))
             e == [label |-> Label(batch[Len(batch)]),
                   query |-> batch[Len(batch)]]
         IN  IF \E i \in DOMAIN d : d[i].label = e.label
             THEN [i \in DOMAIN d |-> IF d[i].label = e.label THEN e ELSE d[i]]
             ELSE Append(d, e)

\* BuildMultiqueries without the ceiling: all the pages in one Multiquery.
BuildSingleMultiquery(pages) ==
    IF pages = <<>> THEN <<>> ELSE <<Multiquery(pages)>>

\* Lines 214-216: one Multiquery per batch of MULTIQUERY_MAX pages.
BuildMultiqueries(pages) ==
    LET bs == batched(pages, MULTIQUERY_MAX)
    IN  [b \in DOMAIN bs |-> Multiquery(bs[b])]

\* The list `multiqueries` fetch_playlist builds for a validated count.
Multiqueries(count) == BuildMultiqueries(query_pages(count))

RECURSIVE MaxOf(_)
\* The multiqueries of every count the catalog answers with.
MultiqueriesOf == [c \in CountValues |-> Multiqueries(c)]

MaxOf(S) ==
    IF S = {} THEN 0
    ELSE LET x == CHOOSE y \in S : TRUE
             m == MaxOf(S \ {x})
         IN  IF x > m THEN x ELSE m

MaxBatches == MaxOf({Len(Multiqueries(c)) : c \in CountValues})

\* A request is the count query of a playlist (index 0) or one of its
\* multiquery batches (index 1..).
Req == Playlists \X (0 .. MaxBatches)

CountReq(p) == <<p, 0>>

NoResp == [status |-> 0, body |-> "none", count |-> 0]

\* The values of job and qry while the scrape runs.
NoJob == [stage |-> "none"]
NoQuery == [stage |-> "none"]
NoCli == [stage |-> "none"]

(* ------------------- merge and sort (lines 222-247) ------------------- *)

\* Item names, as the code points of their characters: "A", "Aa", "B", "a".
Names == {<<65>>, <<65, 97>>, <<66>>, <<97>>}

\* The items a playlist query selects, in the catalog's order, by name: all
\* the lists of up to MaxNamed names, and one list of each greater length,
\* which is not in name order.
LongCatalog(n) ==
    [i \in 1 .. n |->
        CASE i % 4 = 0 -> <<97>>
          [] i % 4 = 1 -> <<66>>
          [] i % 4 = 2 -> <<65, 97>>
          [] OTHER     -> <<65>>]

Catalogs ==
    UNION {[1 .. n -> Names] : n \in 0 .. MaxNamed}
    \cup {LongCatalog(n) : n \in MaxNamed + 1 .. MaxCount}

\* The record of the i-th item of a catalog.
Item(catalog, i) == [id |-> i, name |-> catalog[i]]

\* The catalog's answer to a sub-query: the items of its paging window.
Result(catalog, q) ==
    LET hi == Min(q.offset + q.limit, Len(catalog))
    IN  [k \in 1 .. (IF hi > q.offset THEN hi - q.offset ELSE 0) |->
            Item(catalog, q.offset + k)]

\* The catalog's answer to a multiquery: one named sub-result per entry.
Answer(catalog, mq) ==
    [i \in DOMAIN mq |->
        [name |-> mq[i].label, result |-> Result(catalog, mq[i].query)]]

RECURSIVE Concat(_)
Concat(seqs) ==
    IF seqs = <<>> THEN <<>>
    ELSE Concat(SubSeq(seqs, 1, Len(seqs) - 1)) \o seqs[Len(seqs)]

\* merge, taking the first sub-result of every response only.
merge_first_result(responses) ==
    Concat([r \in DOMAIN responses |->
              IF responses[r] = <<>> THEN <<>> ELSE responses[r][1].result])

\* Lines 222-239: games.extend(g['result']) for every sub-result g of every
\* response, in order.
merge(responses) ==
    Concat([r \in DOMAIN responses |->
              Concat([g \in DOMAIN responses[r] |-> responses[r][g].result])])

\* Code points with the lower-case letters folded onto the upper-case ones.
Fold(c) == IF c \in 97 .. 122 THEN c - 32 ELSE c

\* str_lt comparing without regard to case.
str_lt_ignoring_case(a, b) ==
    \/ \E i \in 1 .. Min(Len(a), Len(b)) :
          /\ \A j \in 1 .. i - 1 : Fold(a[j]) = Fold(b[j])
          /\ Fold(a[i]) < Fold(b[i])
    \/ /\ Len(a) < Len(b)
       /\ \A j \in 1 .. Len(a) : Fold(a[j]) = Fold(b[j])

\* Python's str.__lt__: the first differing code point decides, a proper
\* prefix is smaller.
str_lt(a, b) ==
    \/ \E i \in 1 .. Min(Len(a), Len(b)) :
          /\ \A j \in 1 .. i - 1 : a[j] = b[j]
          /\ a[i] < b[i]
    \/ /\ Len(a) < Len(b)
       /\ \A j \in 1 .. Len(a) : a[j] = b[j]

\* games.sort(key=lambda g: g['name']): list.sort is stable, so an item
\* goes behind the items already placed whose name is not greater.
RECURSIVE sort(_)
sort(games) ==
    IF games = <<>> THEN <<>>
    ELSE LET s == sort(SubSeq(games, 1, Len(games) - 1))
             x == games[Len(games)]
             k == Cardinality({i \in DOMAIN s : ~str_lt(x.name, s[i].name)})
         IN  SubSeq(s, 1, k) \o <<x>> \o SubSeq(s, k + 1, Len(s))

(* --------------------- Query (igdb_playlists.py) ---------------------- *)

\* A str is the sequence of its characters.  An Optional value is None or
\* Some(x); Some of the empty str is not None.
None == <<>>
Some(x) == <<x>>
Whitespace == {" "}

\* str.strip()
strip(str) ==
    LET ns == {i \in DOMAIN str : str[i] \notin Whitespace}
    IN  IF ns = {} THEN <<>>
        ELSE SubSeq(str, CHOOSE i \in ns : \A j \in ns : i <= j,
                         CHOOSE i \in ns : \A j \in ns : j <= i)

\* str.split(","): the empty str splits into one empty str.
RECURSIVE split(_)
split(str) ==
    LET cs == {i \in DOMAIN str : str[i] = ","}
    IN  IF cs = {} THEN <<str>>
        ELSE LET i == CHOOSE x \in cs : \A y \in cs : x <= y
             IN  <<SubSeq(str, 1, i - 1)>> \o split(SubSeq(str, i + 1, Len(str)))

\* sep.join(parts)
RECURSIVE join(_, _)
join(sep, parts) ==
    IF parts = <<>> THEN <<>>
    ELSE IF Len(parts) = 1 THEN parts[1]
    ELSE parts[1] \o sep \o join(sep, SubSeq(parts, 2, Len(parts)))

\* An argument for `fields` or `exclude`: a str, an iterable of str, or None.
StrArg(str) == [kind |-> "str", str |-> str, list |-> <<>>]
ListArg(list) == [kind |-> "list", str |-> <<>>, list |-> list]
NoneArg == [kind |-> "none", str |-> <<>>, list |-> <<>>]

\* The match statements of lines 128-146.
normalize(arg) ==
    CASE arg.kind = "str" ->
            LET parts == split(arg.str)
            IN  Some([i \in DOMAIN parts |-> strip(parts[i])])
      [] arg.kind = "list" ->
            Some([i \in DOMAIN arg.list |-> strip(arg.list[i])])
      [] OTHER -> None

\* Truth value of an Optional str or tuple: None and the empty one are false.
truthy(opt) == opt # None /\ opt[1] # <<>>

NoQueryValue ==
    [fields |-> None, exclude |-> None, where |-> None, limit |-> None,
     offset |-> None, sort |-> None, search |-> None]

\* Line 161: `if search and sort`.
search_and_sort(kw) == truthy(kw.search) /\ truthy(kw.sort)

\* Query.__init__: the Query built from the keyword arguments, or the
\* ValueError of line 162.
Query(kw) ==
    IF search_and_sort(kw)
    THEN [error |-> "ValueError", query |-> NoQueryValue]
    ELSE [error |-> "none",
          query |-> [fields  |-> normalize(kw.fields),
                     exclude |-> normalize(kw.exclude),
                     where   |-> IF kw.where = None THEN None
                                 ELSE Some(strip(kw.where[1])),
                     limit   |-> kw.limit,
                     offset  |-> kw.offset,
                     sort    |-> kw.sort,
                     search  |-> kw.search]]

\* The keywords of the clauses, each with the blank that follows it.
T_FIELDS == <<"f", "i", "e", "l", "d", "s", " ">>
T_EXCLUDE == <<"e", "x", "c", "l", "u", "d", "e", " ">>
T_WHERE == <<"w", "h", "e", "r", "e", " ">>
T_LIMIT == <<"l", "i", "m", "i", "t", " ">>
T_OFFSET == <<"o", "f", "f", "s", "e", "t", " ">>
T_SORT == <<"s", "o", "r", "t", " ">>
T_SEARCH == <<"s", "e", "a", "r", "c", "h", " ">>

\* Clauses with limit and offset tested for truth, as the other clauses
\* are: a 0 is left out.
ClausesDroppingZero(q) ==
    (IF truthy(q.fields)
        THEN <<T_FIELDS \o join(<<",">>, q.fields[1])>> ELSE <<>>)
    \o (IF truthy(q.exclude)
        THEN <<T_EXCLUDE \o join(<<",">>, q.exclude[1])>> ELSE <<>>)
    \o (IF truthy(q.where)
        THEN <<T_WHERE \o q.where[1]>> ELSE <<>>)
    \o (IF q.limit # None /\ q.limit[1] # 0
        THEN <<T_LIMIT \o str_int(q.limit[1])>> ELSE <<>>)
    \o (IF q.offset # None /\ q.offset[1] # 0
        THEN <<T_OFFSET \o str_int(q.offset[1])>> ELSE <<>>)
    \o (IF truthy(q.sort)
        THEN <<T_SORT \o q.sort[1][1] \o <<" ">> \o q.sort[1][2]>> ELSE <<>>)
    \o (IF truthy(q.search)
        THEN <<T_SEARCH \o <<"\"">> \o q.search[1] \o <<"\"">>>> ELSE <<>>)

\* Lines 168-188 of Query.__str__: the list `clauses`.
Clauses(q) ==
    (IF truthy(q.fields)
        THEN <<T_FIELDS \o join(<<",">>, q.fields[1])>> ELSE <<>>)
    \o (IF truthy(q.exclude)
        THEN <<T_EXCLUDE \o join(<<",">>, q.exclude[1])>> ELSE <<>>)
    \o (IF truthy(q.where)
        THEN <<T_WHERE \o q.where[1]>> ELSE <<>>)
    \o (IF q.limit # None
        THEN <<T_LIMIT \o str_int(q.limit[1])>> ELSE <<>>)
    \o (IF q.offset # None
        THEN <<T_OFFSET \o str_int(q.offset[1])>> ELSE <<>>)
    \o (IF truthy(q.sort)
        THEN <<T_SORT \o q.sort[1][1] \o <<" ">> \o q.sort[1][2]>> ELSE <<>>)
    \o (IF truthy(q.search)
        THEN <<T_SEARCH \o <<"\"">> \o q.search[1] \o <<"\"">>>> ELSE <<>>)

\* Query.__str__, line 190: '; '.join(clauses) + ';'
render(q) == join(<<";", " ">>, Clauses(q)) \o <<";">>

(* ------------------------------- state -------------------------------- *)

VARIABLES
    playlists,      \* the playlists of the run
    pst,            \* playlist -> position of its fetch_playlist task
    err,            \* playlist -> why it failed ("none" while it has not)
    multiqueries,   \* playlist -> its list of multiquery batches
    file,           \* playlist -> its output file: absent, empty, complete
    pc,             \* request -> position inside query_endpoint
    tries,          \* request -> dispatches so far (calls of query_igdb)
    otries,         \* request -> on_exception's `tries`: calls of its target
    nretry,         \* request -> retryable statuses the catalog answered it
    resp,           \* request -> the response query_endpoint returned
    value,          \* request_limit._value: free semaphore slots
    holds,          \* requests inside `async with request_limit`
    locked,         \* rate_limit._locked
    sinceLast,      \* ticks since the limiter's last admission (capped)
    lastGap,        \* ticks between the two latest admissions (capped)
    exitcode,       \* the exit status of the scrape process, once it ended
    server,         \* whether the catalog's transient answers come to an end
    job,            \* lines 213-255 run on their own: count to artifact
    qry,            \* a Query under construction and its rendering
    cli             \* a command line on its own: its arguments and its run

vars == <<playlists, pst, err, multiqueries, file, pc, tries, otries, nretry, resp,
          value, holds, locked, sinceLast, lastGap, exitcode, server, job, qry,
          cli>>

gateVars == <<value, holds>>
limiterVars == <<locked, sinceLast, lastGap>>
playlistVars == <<playlists, pst, err, multiqueries, file>>
scrapeVars == <<playlistVars, pc, tries, otries, nretry, resp, gateVars, limiterVars,
                exitcode, server>>
pureVars == <<job, qry, cli>>

Terminal == {"Persisted", "Failed", "Cancelled"}
Finished == {"idle", "returned", "raised", "cancelled"}
Active == {"created", "acquire", "woken", "rate", "flight", "backoff"}
Holding == {"woken", "rate", "flight"}

Batches(p) == {<<p, i>> : i \in 1 .. Len(multiqueries[p])}

(* -------------------------------- Init -------------------------------- *)

\* handle_scrape after it built the semaphore and the limiter and created
\* one task per playlist; no task has run yet.
Init ==
    /\ playlists \in Runs
    /\ pst = [p \in Playlists |-> "Pending"]
    /\ err = [p \in Playlists |-> "none"]
    /\ multiqueries = [p \in Playlists |-> <<>>]
    /\ file = [p \in Playlists |-> "absent"]
    /\ pc = [r \in Req |-> "idle"]
    /\ tries = [r \in Req |-> 0]
    /\ otries = [r \in Req |-> 0]
    /\ nretry = [r \in Req |-> 0]
    /\ resp = [r \in Req |-> NoResp]
    /\ value = MAX_ACTIVE_QUERIES
    /\ holds = {}
    /\ locked = FALSE
    /\ sinceLast = Interval
    /\ lastGap = Interval
    /\ exitcode = "running"
    /\ server = "settles"
    /\ job = NoJob
    /\ qry = NoQuery
    /\ cli = NoCli

(* ------------------------- the gate (igdb.py) ------------------------- *)

Gate == [value |-> value, holds |-> holds]

SetGate(g) == value' = g.value /\ holds' = g.holds

\* CanAcquire with the semaphore's bound forgotten.
CanAcquireUnbounded == TRUE

\* `async with request_limit`: Semaphore.acquire returns without waiting
\* only while the semaphore is not locked(): a slot is free and nobody
\* waits for one.
CanAcquire == value > 0 /\ \A w \in Req : pc[w] # "acquire"

\* ExitGate as a release written after the dispatch, without `async with`
\* or `finally`: an exception or a cancellation skips it.
ExitGateOnReturnOnly(g, S, how) ==
    IF how = "return"
    THEN [value |-> g.value + Cardinality(S \cap g.holds), holds |-> g.holds \ S]
    ELSE g

\* Leaving `async with request_limit` for the requests S: __aexit__ releases
\* the slot on a return, on an exception and on a cancellation alike.  A
\* request cancelled while it waits in acquire holds no slot and frees none.
ExitGate(g, S, how) ==
    [value |-> g.value + Cardinality(S \cap g.holds), holds |-> g.holds \ S]

\* Release with `async with request_limit` placed around the whole of
\* fetch_playlist: the count request that returned keeps its slot while
\* its playlist creates and awaits its multiquery tasks.
ReleaseAfterGather(r, pc1, how) ==
    LET g == IF r[2] = 0 /\ pc1[r] = "returned" /\ how = "return"
             THEN Gate
             ELSE ExitGate(Gate, {r}, how)
        W == {w \in Req : pc1[w] = "acquire"}
    IN  IF W # {} /\ g.value > 0
        THEN \E w \in W :
                /\ pc' = [pc1 EXCEPT ![w] = "woken"]
                /\ value' = g.value - 1
                /\ holds' = g.holds \cup {w}
        ELSE /\ pc' = pc1
             /\ SetGate(g)

\* Request r leaves `async with request_limit`; pc1 is where the requests
\* are after the step.  Semaphore.release hands the freed slot to a caller
\* suspended in acquire, if there is one, and wakes it.
Release(r, pc1, how) ==
    LET g == ExitGate(Gate, {r}, how)
        W == {w \in Req : pc1[w] = "acquire"}
    IN  IF W # {} /\ g.value > 0
        THEN \E w \in W :
                /\ pc' = [pc1 EXCEPT ![w] = "woken"]
                /\ value' = g.value - 1
                /\ holds' = g.holds \cup {w}
        ELSE /\ pc' = pc1
             /\ SetGate(g)

\* LimiterPasses with the wait for the limiter left out.
LimiterAlwaysPasses == TRUE

\* `await rate_limit.wait()` returns at once when the limiter is unlocked.
LimiterPasses == ~locked

\* StrictLimiter lets one caller through and locks for one period.
Admit ==
    /\ locked' = TRUE
    /\ lastGap' = sinceLast
    /\ sinceLast' = 0

\* The transient answers of a run before the catalog settles.
RetryBudget ==
    IF Cardinality(playlists) = 1 THEN MaxRetryable ELSE MaxRetryableShared

\* One more dispatch of a request dispatched n times.  Against a catalog
\* whose transient answers never end the count stops at the greatest
\* number of dispatches of the other runs.
OneMore(n) == IF server = "stubborn" /\ n > RetryBudget THEN n ELSE n + 1

\* query_endpoint past the semaphore: wait for the limiter, then query_igdb
\* posts the request.
Enter(r) ==
    IF LimiterPasses
    THEN /\ Admit
         /\ pc' = [pc EXCEPT ![r] = "flight"]
         /\ tries' = [tries EXCEPT ![r] = OneMore(@)]
    ELSE /\ pc' = [pc EXCEPT ![r] = "rate"]
         /\ UNCHANGED <<limiterVars, tries>>

\* Arrive with `await rate_limit.wait()` written before
\* `async with request_limit`: an unlocked limiter admits the caller before
\* it has a slot.
ArriveRateFirst(r) ==
    IF LimiterPasses
    THEN /\ Admit
         /\ IF CanAcquire
            THEN /\ value' = value - 1
                 /\ holds' = holds \cup {r}
                 /\ pc' = [pc EXCEPT ![r] = "flight"]
                 /\ tries' = [tries EXCEPT ![r] = @ + 1]
            ELSE /\ pc' = [pc EXCEPT ![r] = "acquire"]
                 /\ UNCHANGED <<gateVars, tries>>
    ELSE IF CanAcquire
    THEN /\ value' = value - 1
         /\ holds' = holds \cup {r}
         /\ pc' = [pc EXCEPT ![r] = "rate"]
         /\ UNCHANGED <<limiterVars, tries>>
    ELSE /\ pc' = [pc EXCEPT ![r] = "acquire"]
         /\ UNCHANGED <<gateVars, limiterVars, tries>>

\* query_endpoint is called for request r (a task's first step, or the call
\* after a backoff sleep): `async with request_limit` takes a free slot and
\* goes on to the limiter, or suspends the caller until a slot is handed
\* to it.
Arrive(r) ==
    IF CanAcquire
    THEN /\ value' = value - 1
         /\ holds' = holds \cup {r}
         /\ Enter(r)
    ELSE /\ pc' = [pc EXCEPT ![r] = "acquire"]
         /\ UNCHANGED <<gateVars, limiterVars, tries>>

\* Request r, woken by Semaphore.release with the slot handed to it,
\* resumes and goes on to the limiter.
Acquire(r) ==
    /\ pc[r] = "woken"
    /\ Enter(r)
    /\ UNCHANGED <<playlistVars, gateVars, otries, nretry, resp>>
    /\ UNCHANGED <<pureVars, exitcode, server>>

\* StrictLimiter._wakeup at the end of a period with a caller waiting: the
\* caller is let through and the next wakeup is scheduled.
LimiterWakeup(r) ==
    /\ locked
    /\ sinceLast = Interval
    /\ pc[r] = "rate"
    /\ Admit
    /\ pc' = [pc EXCEPT ![r] = "flight"]
    /\ tries' = [tries EXCEPT ![r] = OneMore(@)]
    /\ UNCHANGED <<playlistVars, gateVars, otries, nretry, resp>>
    /\ UNCHANGED <<pureVars, exitcode, server>>

\* StrictLimiter._wakeup with nobody waiting: the limiter unlocks.
LimiterUnlock ==
    /\ locked
    /\ sinceLast = Interval
    /\ \A r \in Req : pc[r] # "rate"
    /\ locked' = FALSE
    /\ UNCHANGED <<playlistVars, gateVars, pc, tries, otries, nretry, resp,
                   sinceLast, lastGap>>
    /\ UNCHANGED <<pureVars, exitcode, server>>

\* Time passes; the limiter's wakeup fires when its period is over.
Tick ==
    /\ sinceLast < Interval
    /\ sinceLast' = sinceLast + 1
    /\ UNCHANGED <<playlistVars, gateVars, pc, tries, otries, nretry, resp,
                   locked, lastGap>>
    /\ UNCHANGED <<pureVars, exitcode, server>>

(* ------------------------- the retry decorators ----------------------- *)

\* on_predicate with REQUEST_TIMEOUT missing from RETRY_CODES.
on_predicate_without_408(status) == status \in RETRY_CODES \ {408}

\* on_predicate(response): retry on a status of RETRY_CODES.
on_predicate(status) == status \in RETRY_CODES

\* Response.is_error
is_error(status) == status >= 400

IsHTTPStatusError(e) == e = "HTTPStatusError"

\* giveup(e): anything but an HTTPStatusError is given up on.
giveup(e) == ~IsHTTPStatusError(e)

\* ShouldRetryException as on_exception(expo, Exception, max_tries=5)
\* without giveup: every exception is retried.
RetriesAnyException(e, n) == n # max_tries

\* backoff.on_exception(expo, HTTPStatusError, max_tries=5, giveup=giveup):
\* whether exception e of the n-th call is caught and retried.
ShouldRetryException(e, n) ==
    IsHTTPStatusError(e) /\ ~giveup(e) /\ n # max_tries

\* BackoffWake as a retry loop placed inside `async with request_limit`,
\* around query_igdb alone: the next attempt is posted without entering
\* the gate.
BackoffWakeInsideGate(r) ==
    /\ pc[r] = "backoff"
    /\ pc' = [pc EXCEPT ![r] = "flight"]
    /\ tries' = [tries EXCEPT ![r] = @ + 1]
    /\ UNCHANGED <<playlistVars, gateVars, limiterVars, otries, nretry, resp>>
    /\ UNCHANGED <<pureVars, exitcode, server>>

\* The backoff sleep of a retry ends: the decorated query_endpoint is
\* called again and enters `async with request_limit` anew.
BackoffWake(r) ==
    /\ pc[r] = "backoff"
    /\ Arrive(r)
    /\ UNCHANGED <<playlistVars, otries, nretry, resp>>
    /\ UNCHANGED <<pureVars, exitcode, server>>

(* ------------------------- TaskGroup semantics ------------------------ *)

\* What a cancellation leaves of the output file of playlist q: a task
\* cancelled while the executor thread opens or writes the file may or may
\* not have had the thread's call take effect.
CancelledFile(q) ==
    CASE pst[q] = "Open"  -> {file[q], "empty"}
      [] pst[q] = "Write" -> {"empty", "complete"}
      [] OTHER            -> {file[q]}

\* The task of playlist p ends with an exception: TaskGroup._on_task_done
\* aborts the group, which cancels every task that is not done, playlists'
\* and batches' alike.  pc1 and g1 are the requests and the gate as the
\* failing step left them.
Fail(p, why, pc1, g1) ==
    LET gone == {r \in Req : pc1[r] \in Active}
    IN  /\ pst' = [q \in Playlists |->
                      IF q = p THEN "Failed"
                      ELSE IF pst[q] \in Terminal \/ q \notin playlists
                      THEN pst[q]
                      ELSE "Cancelled"]
        /\ err' = [err EXCEPT ![p] = why]
        /\ pc' = [r \in Req |-> IF r \in gone THEN "cancelled" ELSE pc1[r]]
        /\ SetGate(ExitGate(g1, gone, "cancel"))
        /\ file' \in {f \in [Playlists -> {"absent", "empty", "complete"}] :
                        \A q \in Playlists :
                            f[q] \in (IF q = p \/ pst[q] \in Terminal
                                      THEN {file[q]} ELSE CancelledFile(q))}
        /\ UNCHANGED <<playlists, multiqueries>>

(* --------------------------- fetch_playlist --------------------------- *)

\* The task of playlist p starts: it calls query_endpoint for games/count.
Start(p) ==
    /\ p \in playlists
    /\ pst[p] = "Pending"
    /\ pst' = [pst EXCEPT ![p] = "CountRequested"]
    /\ otries' = [otries EXCEPT ![CountReq(p)] = 1]
    /\ Arrive(CountReq(p))
    /\ UNCHANGED <<playlists, err, multiqueries, file, nretry, resp>>
    /\ UNCHANGED <<pureVars, exitcode, server>>

\* The task of a multiquery starts: it calls query_endpoint.
BatchStart(r) ==
    /\ pc[r] = "created"
    /\ otries' = [otries EXCEPT ![r] = 1]
    /\ Arrive(r)
    /\ UNCHANGED <<playlistVars, nretry, resp>>
    /\ UNCHANGED <<pureVars, exitcode, server>>

\* The statuses the catalog may still answer request r with: transient
\* ones to one request of a run, and to it only up to the budget unless
\* the catalog never settles.
MayAnswer(r, s) ==
    s \in TransientStatuses =>
        /\ server = "stubborn" \/ nretry[r] < RetryBudget
        /\ \A x \in Req \ {r} : nretry[x] = 0

Answered(r, s) ==
    nretry' = [nretry EXCEPT ![r] =
                  IF s \in TransientStatuses /\ @ < RetryBudget THEN @ + 1 ELSE @]

\* A response with a status on_predicate retries: the slot is released and
\* the request sleeps before its next attempt.
RetryableResponse(r, s) ==
    /\ pc[r] = "flight"
    /\ MayAnswer(r, s)
    /\ on_predicate(s)
    /\ Answered(r, s)
    /\ Release(r, [pc EXCEPT ![r] = "backoff"], "return")
    /\ UNCHANGED <<playlistVars, limiterVars, tries, otries, resp>>
    /\ UNCHANGED <<pureVars, exitcode, server>>

\* CountError without the isinstance(count_json['count'], Number) check of
\* line 210.
CountErrorWithoutNumberCheck(rsp) ==
    CASE rsp.body = "notjson"    -> "ValueError"
      [] rsp.body = "notobject"  -> "ValueError"
      [] rsp.body = "nocount"    ->
            IF rsp.status >= 400 THEN "HTTPStatusError" ELSE "ValueError"
      [] OTHER                   -> "none"

\* Lines 197-211: the error the count response is rejected with, or "none".
CountError(rsp) ==
    CASE rsp.body = "notjson"    -> "ValueError"
      [] rsp.body = "notobject"  -> "ValueError"
      [] rsp.body = "nocount"    ->
            IF is_error(rsp.status) THEN "HTTPStatusError" ELSE "ValueError"
      [] rsp.body = "nonnumeric" -> "ValueError"
      [] OTHER                   -> "none"

\* query_endpoint returns the games/count response to fetch_playlist, which
\* validates it, builds the multiqueries and creates one task per
\* multiquery; with no multiquery, gather returns at once and the task goes
\* on to create the output directory.
CountResponse(p, rsp) ==
    LET r == CountReq(p)
        s == rsp.status
        mq == MultiqueriesOf[rsp.count]
        pc1 == [x \in Req |->
                   IF x = r THEN "returned"
                   ELSE IF x[1] = p /\ x[2] \in 1 .. Len(mq) THEN "created"
                   ELSE pc[x]]
    IN  /\ pc[r] = "flight"
        /\ MayAnswer(r, s)
        /\ ~on_predicate(s)
        /\ Answered(r, s)
        /\ resp' = [resp EXCEPT ![r] = rsp]
        /\ IF CountError(rsp) # "none"
           THEN Fail(p, CountError(rsp), [pc EXCEPT ![r] = "returned"],
                     ExitGate(Gate, {r}, "return"))
           ELSE /\ multiqueries' = [multiqueries EXCEPT ![p] = mq]
                /\ pst' = [pst EXCEPT ![p] =
                              IF Len(mq) = 0 THEN "MakeDirs" ELSE "Fetching"]
                /\ Release(r, pc1, "return")
                /\ UNCHANGED <<playlists, err, file>>
        /\ UNCHANGED <<limiterVars, tries, otries>>
        /\ UNCHANGED <<pureVars, exitcode, server>>

\* The malformed bodies the catalog answers a multiquery with: every kind
\* in the run of one playlist, the JSON object alone in a run of several.
MayAnswerBody(r, body) ==
    body \in MalformedBatchBodies =>
        (Cardinality(playlists) = 1 \/ body = "notarray")

\* The task of a multiquery ends with the response query_endpoint returns.
BatchResponse(r, rsp) ==
    /\ r[2] > 0
    /\ pc[r] = "flight"
    /\ MayAnswer(r, rsp.status)
    /\ rsp.status = 200 => MayAnswerBody(r, rsp.body)
    /\ ~on_predicate(rsp.status)
    /\ Answered(r, rsp.status)
    /\ resp' = [resp EXCEPT ![r] = rsp]
    /\ Release(r, [pc EXCEPT ![r] = "returned"], "return")
    /\ UNCHANGED <<playlistVars, limiterVars, tries, otries>>
    /\ UNCHANGED <<pureVars, exitcode, server>>

\* client.post raises: the exception leaves `async with request_limit`,
\* passes on_predicate and reaches on_exception, which retries it or lets it
\* end the task.  The exception of a batch task reaches its playlist
\* through gather.
TransportFailure(r, e) ==
    /\ pc[r] = "flight"
    /\ IF ShouldRetryException(e, otries[r])
       THEN /\ Release(r, [pc EXCEPT ![r] = "backoff"], "raise")
            /\ otries' = [otries EXCEPT ![r] = @ + 1]
            /\ UNCHANGED playlistVars
       ELSE /\ Fail(r[1], e, [pc EXCEPT ![r] = "raised"],
                    ExitGate(Gate, {r}, "raise"))
            /\ UNCHANGED otries
    /\ UNCHANGED <<limiterVars, tries, nretry, resp>>
    /\ UNCHANGED <<pureVars, exitcode, server>>

\* Lines 224-244 for one response: the error it is rejected with, or "none".
\* The content type is compared with application/json; a body that is not
\* a collections.abc.Sequence is rejected; g['result'] of a sub-result
\* without that key raises KeyError, which no except clause catches.  A
\* str is a Sequence, and the loop over the empty one does nothing.
BatchError(rsp) ==
    CASE is_error(rsp.status)    -> "HTTPStatusError"
      [] rsp.body = "notjson"    -> "ValueError"
      [] rsp.body = "notarray"   -> "ValueError"
      [] rsp.body = "noresult"   -> "KeyError"
      [] OTHER                   -> "none"

\* The error of the first rejected response in task order, or "none".
GatherError(p) ==
    LET bad == {i \in 1 .. Len(multiqueries[p]) :
                    BatchError(resp[<<p, i>>]) # "none"}
    IN  IF bad = {} THEN "none"
        ELSE BatchError(resp[<<p, CHOOSE i \in bad : \A j \in bad : i <= j>>])

\* GatherDone as a wait for the first multiquery task that is done
\* (asyncio.wait with FIRST_COMPLETED) in place of gather.
GatherFirstCompleted(p) ==
    /\ pst[p] = "Fetching"
    /\ \E r \in Batches(p) : pc[r] = "returned"
    /\ IF GatherError(p) # "none"
       THEN Fail(p, GatherError(p), pc, Gate)
       ELSE /\ pst' = [pst EXCEPT ![p] = "MakeDirs"]
            /\ UNCHANGED <<playlists, err, multiqueries, file, pc, gateVars>>
    /\ UNCHANGED <<limiterVars, tries, otries, nretry, resp>>
    /\ UNCHANGED <<pureVars, exitcode, server>>

\* gather returns once every multiquery task is done; fetch_playlist merges
\* the responses in order, sorts the games and goes on to create the output
\* directory, or raises on the first response it rejects.
GatherDone(p) ==
    /\ pst[p] = "Fetching"
    /\ \A r \in Batches(p) : pc[r] = "returned"
    /\ IF GatherError(p) # "none"
       THEN Fail(p, GatherError(p), pc, Gate)
       ELSE /\ pst' = [pst EXCEPT ![p] = "MakeDirs"]
            /\ UNCHANGED <<playlists, err, multiqueries, file, pc, gateVars>>
    /\ UNCHANGED <<limiterVars, tries, otries, nretry, resp>>
    /\ UNCHANGED <<pureVars, exitcode, server>>

\* await aiofiles.os.makedirs(outdir, exist_ok=True)
MakeDirs(p) ==
    /\ pst[p] = "MakeDirs"
    /\ pst' = [pst EXCEPT ![p] = "Open"]
    /\ UNCHANGED <<playlists, err, multiqueries, file, pc, gateVars, limiterVars,
                   tries, otries, nretry, resp>>
    /\ UNCHANGED <<pureVars, exitcode, server>>

\* aiofiles.open(outpath, 'w'): the file exists and is empty.
OpenFile(p) ==
    /\ pst[p] = "Open"
    /\ pst' = [pst EXCEPT ![p] = "Write"]
    /\ file' = [file EXCEPT ![p] = "empty"]
    /\ UNCHANGED <<playlists, err, multiqueries, pc, gateVars, limiterVars,
                   tries, otries, nretry, resp>>
    /\ UNCHANGED <<pureVars, exitcode, server>>

\* outfile.write(json.dumps(games)) and the close of the file.
WriteFile(p) ==
    /\ pst[p] = "Write"
    /\ pst' = [pst EXCEPT ![p] = "Persisted"]
    /\ file' = [file EXCEPT ![p] = "complete"]
    /\ UNCHANGED <<playlists, err, multiqueries, pc, gateVars, limiterVars,
                   tries, otries, nretry, resp>>
    /\ UNCHANGED <<pureVars, exitcode, server>>

(* ------------------------- the end of the process --------------------- *)

\* exit_status for a main that catches what handle_scrape raises.
exit_status_swallowing(raised) == "zero"

\* Lines 361-362: the exit status of the interpreter.  An exception that
\* leaves asyncio.run leaves main uncaught and ends the process with a
\* traceback and a status other than zero; a return ends it with zero.
exit_status(raised) == IF raised THEN "nonzero" ELSE "zero"

\* `async with asyncio.TaskGroup() as tg` is left once every task of the
\* group is done: it raises the ExceptionGroup of the exceptions its tasks
\* ended with, if any did, and the process ends.
GroupExit ==
    /\ exitcode = "running"
    /\ \A p \in playlists : pst[p] \in Terminal
    /\ \A r \in Req : pc[r] \in Finished
    /\ exitcode' = exit_status(\E p \in playlists : pst[p] = "Failed")
    /\ UNCHANGED <<playlistVars, pc, tries, otries, nretry, resp, gateVars,
                   limiterVars, server, pureVars>>

(* -------------------------------- Next -------------------------------- *)

Next ==
    \/ \E p \in Playlists : Start(p)
    \/ \E r \in Req : BatchStart(r)
    \/ \E r \in Req : Acquire(r)
    \/ \E r \in Req : LimiterWakeup(r)
    \/ LimiterUnlock
    \/ Tick
    \/ \E r \in Req : BackoffWake(r)
    \/ \E r \in Req, s \in Statuses : RetryableResponse(r, s)
    \/ \E p \in Playlists, a \in CountAnswers : CountResponse(p, a)
    \/ \E r \in Req, a \in BatchAnswers : BatchResponse(r, a)
    \/ \E r \in Req, e \in TransportErrors : TransportFailure(r, e)
    \/ \E p \in Playlists : GatherDone(p)
    \/ \E p \in Playlists : MakeDirs(p)
    \/ \E p \in Playlists : OpenFile(p)
    \/ \E p \in Playlists : WriteFile(p)
    \/ GroupExit

Spec == Init /\ [][Next]_vars

\* handle_scrape run against a catalog that is free to answer one request
\* with transient statuses for as long as it likes.
LiveInit ==
    /\ playlists \in Runs
    /\ server = "stubborn"
    /\ pst = [p \in Playlists |-> "Pending"]
    /\ err = [p \in Playlists |-> "none"]
    /\ multiqueries = [p \in Playlists |-> <<>>]
    /\ file = [p \in Playlists |-> "absent"]
    /\ pc = [r \in Req |-> "idle"]
    /\ tries = [r \in Req |-> 0]
    /\ otries = [r \in Req |-> 0]
    /\ nretry = [r \in Req |-> 0]
    /\ resp = [r \in Req |-> NoResp]
    /\ value = MAX_ACTIVE_QUERIES
    /\ holds = {}
    /\ locked = FALSE
    /\ sinceLast = Interval
    /\ lastGap = Interval
    /\ exitcode = "running"
    /\ job = NoJob
    /\ qry = NoQuery
    /\ cli = NoCli

\* A request that was posted gets a response or an exception; which one
\* is the catalog's choice.
Responds(r) ==
    \/ \E s \in Statuses : RetryableResponse(r, s)
    \/ \E a \in CountAnswers : r[2] = 0 /\ CountResponse(r[1], a)
    \/ \E a \in BatchAnswers : BatchResponse(r, a)
    \/ \E x \in TransportErrors : TransportFailure(r, x)

\* The steps of the task of playlist p, and of the task of request r.
PlaylistStep(p) ==
    Start(p) \/ GatherDone(p) \/ MakeDirs(p) \/ OpenFile(p) \/ WriteFile(p)
RequestStep(r) ==
    BatchStart(r) \/ Acquire(r) \/ LimiterWakeup(r) \/ BackoffWake(r)

\* The event loop runs every task that is ready and every timer that is
\* due, time passes, and every request that was posted gets a response or
\* an exception.  The limiter and the semaphore wake their waiters in the
\* order of arrival, so a request that waits for them again and again is
\* let through.
LiveSpec ==
    /\ LiveInit
    /\ [][Next]_vars
    /\ WF_vars(Tick)
    /\ WF_vars(LimiterUnlock)
    /\ WF_vars(GroupExit)
    /\ \A p \in Playlists : WF_vars(PlaylistStep(p))
    /\ \A r \in Req : SF_vars(RequestStep(r))
    /\ \A r \in Req : WF_vars(Responds(r))

\* The gate under load: a run of both playlists, one with a catalog of two
\* multiqueries and one with a catalog of one, so that there are more
\* callers than slots.  The catalog answers with the count, the items, a
\* transient status or, to a multiquery, an error status.
GateInit == LiveInit /\ playlists = Playlists

GateCounts == [p \in Playlists |-> IF p = "A" THEN 10001 ELSE 1200]

GateCountAnswers ==
    {[status |-> 200, body |-> "count", count |-> c] : c \in {1200, 10001}}
GateBatchAnswers ==
    {[status |-> 200, body |-> "items", count |-> 0],
     [status |-> 404, body |-> "notjson", count |-> 0]}

GateResponds(r) ==
    \/ RetryableResponse(r, 429)
    \/ \E a \in GateCountAnswers :
          /\ r[2] = 0
          /\ a.count = GateCounts[r[1]]
          /\ CountResponse(r[1], a)
    \/ \E a \in GateBatchAnswers : BatchResponse(r, a)

GateNext ==
    \/ \E p \in Playlists : Start(p)
    \/ \E r \in Req : BatchStart(r)
    \/ \E r \in Req : Acquire(r)
    \/ \E r \in Req : LimiterWakeup(r)
    \/ LimiterUnlock
    \/ Tick
    \/ \E r \in Req : BackoffWake(r)
    \/ \E r \in Req : GateResponds(r)
    \/ \E p \in Playlists : GatherDone(p)

\* The event loop runs every task that is ready, time passes and the
\* limiter's timer fires, and every held dispatch completes.  The limiter
\* wakes its waiters in the order of arrival, so a caller that the timer
\* finds waiting again and again is let through.
GateSpec ==
    /\ GateInit
    /\ [][GateNext]_vars
    /\ WF_vars(Tick)
    /\ WF_vars(LimiterUnlock)
    /\ \A p \in Playlists : WF_vars(Start(p) \/ GatherDone(p))
    /\ \A r \in Req : WF_vars(BatchStart(r) \/ Acquire(r) \/ BackoffWake(r))
    /\ \A r \in Req : SF_vars(LimiterWakeup(r))
    /\ \A r \in Req : WF_vars(GateResponds(r))

TypeOK ==
    /\ pst \in [Playlists -> {"Pending", "CountRequested", "Fetching",
                              "MakeDirs", "Open", "Write"} \cup Terminal]
    /\ file \in [Playlists -> {"absent", "empty", "complete"}]
    /\ pc \in [Req -> Active \cup Finished]
    /\ value \in 0 .. MAX_ACTIVE_QUERIES
    /\ holds \subseteq Req
    /\ sinceLast \in 0 .. Interval
    /\ lastGap \in 0 .. Interval
    /\ exitcode \in {"running", "zero", "nonzero"}
    /\ server \in {"settles", "stubborn"}

(* ------------------------ the Query of a Playlist --------------------- *)

\* DEFAULT_SORT, and two of the entries of DEFAULT_GAME_FIELD_TUPLE.
DEFAULT_SORT == <<<<"n", "a", "m", "e">>, <<"a", "s", "c">>>>
DEFAULT_GAME_FIELD_TUPLE == <<<<"n", "a", "m", "e">>, <<"s", "l", "u", "g">>>>

\* Lines 239-247 for a Playlist given `where` and `search` only, as the
\* entries of PLAYLISTS are: Query is called with the defaults of
\* Playlist.__init__ for the other arguments.
PlaylistArgs(kw) ==
    [fields  |-> ListArg(DEFAULT_GAME_FIELD_TUPLE),
     exclude |-> NoneArg,
     where   |-> kw.where,
     limit   |-> Some(DEFAULT_LIMIT),
     offset  |-> Some(0),
     sort    |-> Some(DEFAULT_SORT),
     search  |-> kw.search]

\* The `where` of the playlists of the jobs.
Wheres == {<<"p", "=", "1">>, <<"p", "=", "2">>}

\* The Query of a Playlist built with `where` and a page size as `limit`.
PlaylistQuery(where, page_size) ==
    Query([PlaylistArgs([where |-> Some(where), search |-> None])
              EXCEPT !.limit = Some(page_size)]).query

\* page_query carrying over the fields only: `where` and the rest are not
\* copied.
page_query_fields_only(base, w) ==
    [NoQueryValue EXCEPT !.fields = base.fields,
                         !.offset = Some(w.offset), !.limit = Some(w.limit)]

\* The Query of one page of query_pages: a new Query, the playlist's with
\* the offset and the limit of the window in place of its own.
page_query(base, w) ==
    [base EXCEPT !.offset = Some(w.offset), !.limit = Some(w.limit)]

(* ------------- lines 213-255 of fetch_playlist on their own ----------- *)

\* No scrape runs: handle_scrape's state as built, for no playlist.
ScrapeIdle ==
    /\ playlists = {}
    /\ pst = [p \in Playlists |-> "Pending"]
    /\ err = [p \in Playlists |-> "none"]
    /\ multiqueries = [p \in Playlists |-> <<>>]
    /\ file = [p \in Playlists |-> "absent"]
    /\ pc = [r \in Req |-> "idle"]
    /\ tries = [r \in Req |-> 0]
    /\ otries = [r \in Req |-> 0]
    /\ nretry = [r \in Req |-> 0]
    /\ resp = [r \in Req |-> NoResp]
    /\ value = MAX_ACTIVE_QUERIES
    /\ holds = {}
    /\ locked = FALSE
    /\ sinceLast = Interval
    /\ lastGap = Interval
    /\ exitcode = "running"
    /\ server = "settles"

\* fetch_playlist at line 213, for a playlist whose query has the limit
\* page_size and selects the items of `catalog`: playlist.query was sent
\* as the count query (line 196), the count response was validated and
\* carries the number of those items.
JobInit ==
    /\ ScrapeIdle
    /\ qry = NoQuery
    /\ cli = NoCli
    /\ \E c \in Catalogs, ps \in 1 .. MaxPageSize, w \in Wheres :
          job = [stage |-> "count", catalog |-> c, page_size |-> ps,
                 query |-> PlaylistQuery(w, ps),
                 count_query |-> PlaylistQuery(w, ps), queries |-> <<>>,
                 count |-> Len(c), pages |-> <<>>, multiqueries |-> <<>>,
                 done |-> <<>>, responses |-> <<>>, merged |-> <<>>,
                 games |-> <<>>, artifact |-> <<>>]

\* playlist.query_pages(count), line 215: the Query of every page, and
\* the window of each.
JobPage ==
    /\ job.stage = "count"
    /\ LET windows == plan_pages(job.count, job.page_size)
       IN  job' = [job EXCEPT
                      !.stage = "paged",
                      !.pages = windows,
                      !.queries = [k \in DOMAIN windows |->
                                      page_query(job.query, windows[k])]]
    /\ UNCHANGED <<scrapeVars, qry, cli>>

\* The loop of lines 214-216 over the batches of pages.
JobBatch ==
    /\ job.stage = "paged"
    /\ job' = [job EXCEPT !.stage = "batched",
                          !.multiqueries = BuildMultiqueries(job.pages)]
    /\ UNCHANGED <<scrapeVars, qry, cli>>

\* gather handing the results over in the order the tasks were done in.
gather_as_completed(results, done) ==
    [i \in DOMAIN done |-> results[done[i]]]

\* asyncio.gather(*playlist_tasks): the results of the tasks in the order
\* of the tasks, whatever order they were done in.
gather(results, done) == results

\* Line 218: one task is created for each multiquery.
JobFetch ==
    /\ job.stage = "batched"
    /\ job' = [job EXCEPT !.stage = "fetching", !.done = <<>>]
    /\ UNCHANGED <<scrapeVars, qry, cli>>

\* The task of multiquery b is done, when no request fails: whichever task
\* is not done yet may be the next.
JobBatchDone(b) ==
    /\ job.stage = "fetching"
    /\ b \in DOMAIN job.multiqueries
    /\ \A i \in DOMAIN job.done : job.done[i] # b
    /\ job' = [job EXCEPT !.done = Append(@, b)]
    /\ UNCHANGED <<scrapeVars, qry, cli>>

\* Line 221: gather returns once every task is done; the result of a task
\* is the catalog's answer to its multiquery.
JobGather ==
    /\ job.stage = "fetching"
    /\ Len(job.done) = Len(job.multiqueries)
    /\ job' = [job EXCEPT
                  !.stage = "fetched",
                  !.responses =
                      gather([b \in DOMAIN job.multiqueries |->
                                 Answer(job.catalog, job.multiqueries[b])],
                             job.done)]
    /\ UNCHANGED <<scrapeVars, qry, cli>>

\* Lines 222-244.
JobMerge ==
    /\ job.stage = "fetched"
    /\ job' = [job EXCEPT !.stage = "merged",
                          !.merged = merge(job.responses),
                          !.games = merge(job.responses)]
    /\ UNCHANGED <<scrapeVars, qry, cli>>

\* Line 247.
JobSort ==
    /\ job.stage = "merged"
    /\ job' = [job EXCEPT !.stage = "sorted", !.games = sort(job.games)]
    /\ UNCHANGED <<scrapeVars, qry, cli>>

\* Lines 251-255: the file receives json.dumps(games), the JSON array of
\* the records of `games` in their order.
JobWrite ==
    /\ job.stage = "sorted"
    /\ job' = [job EXCEPT !.stage = "written", !.artifact = job.games]
    /\ UNCHANGED <<scrapeVars, qry, cli>>

\* The most multiqueries a job has.
MaxJobBatches == (MaxCount + MULTIQUERY_MAX - 1) \div MULTIQUERY_MAX

JobNext ==
    \/ JobPage
    \/ JobBatch
    \/ JobFetch
    \/ \E b \in 1 .. MaxJobBatches : JobBatchDone(b)
    \/ JobGather
    \/ JobMerge
    \/ JobSort
    \/ JobWrite

JobSpec == JobInit /\ [][JobNext]_vars

(* ------------------- constructing and rendering a Query --------------- *)

\* Field paths, and the lists of them given as `fields` or `exclude`.
FieldPaths == {<<"a">>, <<"b">>}
FieldLists == UNION {[1 .. n -> FieldPaths] : n \in 0 .. MaxFields}

\* Whitespace put around the entries of a comma-separated str.
Paddings == {<<>>, <<" ">>}

\* The comma-joined str of a list of field paths.
JoinPadded(L, pad) == join(<<",">>, [i \in DOMAIN L |-> pad \o L[i] \o pad])

\* The keyword arguments of a call of Query for the list L and padding pad.
QueryArgs(L, pad) ==
    [fields  : {NoneArg, ListArg(L), StrArg(JoinPadded(L, pad))},
     exclude : {NoneArg, ListArg(L), StrArg(JoinPadded(L, pad))},
     where   : {None, Some(<<>>), Some(pad \o <<"x", "=", "1">> \o pad)},
     limit   : {None, Some(0), Some(10)},
     offset  : {None, Some(0)},
     sort    : {None, Some(DEFAULT_SORT)},
     search  : {None, Some(<<>>), Some(<<"z">>)}]

QueryInit ==
    /\ ScrapeIdle
    /\ job = NoJob
    /\ cli = NoCli
    /\ \E L \in FieldLists, pad \in Paddings :
          \E kw \in QueryArgs(L, pad) :
              qry = [stage |-> "args", via |-> "none", L |-> L, pad |-> pad,
                     kwargs |-> kw, error |-> "none", query |-> NoQueryValue,
                     text |-> <<>>]

\* Query(**kwargs)
QueryConstruct ==
    /\ qry.stage = "args"
    /\ qry' = [qry EXCEPT
                  !.stage = IF Query(qry.kwargs).error = "none"
                            THEN "constructed" ELSE "raised",
                  !.via = "Query",
                  !.error = Query(qry.kwargs).error,
                  !.query = Query(qry.kwargs).query]
    /\ UNCHANGED <<scrapeVars, job, cli>>

\* Playlist(title, systemid, where=..., search=...)
PlaylistConstruct ==
    /\ qry.stage = "args"
    /\ qry' = [qry EXCEPT
                  !.stage = IF Query(PlaylistArgs(qry.kwargs)).error = "none"
                            THEN "constructed" ELSE "raised",
                  !.via = "Playlist",
                  !.kwargs = PlaylistArgs(qry.kwargs),
                  !.error = Query(PlaylistArgs(qry.kwargs)).error,
                  !.query = Query(PlaylistArgs(qry.kwargs)).query]
    /\ UNCHANGED <<scrapeVars, job, cli>>

\* str(query)
QueryRender ==
    /\ qry.stage = "constructed"
    /\ qry' = [qry EXCEPT !.stage = "rendered", !.text = render(qry.query)]
    /\ UNCHANGED <<scrapeVars, job, cli>>

QueryNext ==
    \/ QueryConstruct
    \/ PlaylistConstruct
    \/ QueryRender

QuerySpec == QueryInit /\ [][QueryNext]_vars

(* ---------------- the playlists of a scrape command line ------------- *)

\* The longest list of names given to --playlists.
MaxRequested == 3

\* PLAYLISTS, by title, and the system id of each.
PLAYLISTS == <<"A", "B">>
SystemIds == [p \in Playlists |-> IF p = "A" THEN "a" ELSE "b"]

\* The names a command line may give: titles, system ids, an unknown name.
RequestNames == Playlists \cup {SystemIds[p] : p \in Playlists} \cup {"?"}
Requests == UNION {[1 .. n -> RequestNames] : n \in 0 .. MaxRequested}

\* get_playlist(name): the playlist of that title or of that system id, or
\* None.
get_playlist(name) ==
    IF name \in Playlists THEN Some(name)
    ELSE IF \E p \in Playlists : SystemIds[p] = name
    THEN Some(CHOOSE p \in Playlists : SystemIds[p] = name)
    ELSE None

\* filter(None, ...): the entries that are not None, in their order.
RECURSIVE filter_none(_)
filter_none(opts) ==
    IF opts = <<>> THEN <<>>
    ELSE (IF Head(opts) = None THEN <<>> ELSE <<Head(opts)[1]>>)
            \o filter_none(Tail(opts))

\* Lines 143-149: the playlists of the run, one entry for each name that
\* names a playlist; every playlist when no name is given.
select_playlists(names) ==
    LET playlist_args == IF names = <<>> THEN PLAYLISTS ELSE names
    IN  filter_none([i \in DOMAIN playlist_args |->
                        get_playlist(playlist_args[i])])

\* Line 252: the path of the file of a playlist in outdir.
outpath(title) == <<title, ".json">>

\* handle_scrape is called with args.playlists one of Requests.
SelectInit ==
    /\ ScrapeIdle
    /\ job = NoJob
    /\ qry = NoQuery
    /\ \E names \in Requests :
          cli = [stage |-> "args", names |-> names, playlists |-> <<>>,
                 tasks |-> <<>>, opened |-> [p \in Playlists |-> 0]]

\* Lines 143-151 and 259-261: the playlists are selected and one task is
\* created for each entry, or ValueError is raised when there is none.
SelectPlaylists ==
    /\ cli.stage = "args"
    /\ LET sel == select_playlists(cli.names)
       IN  cli' = [cli EXCEPT
                      !.stage = IF sel = <<>> THEN "raised" ELSE "group",
                      !.playlists = sel,
                      !.tasks = [i \in DOMAIN sel |-> "fetch"]]
    /\ UNCHANGED <<scrapeVars, job, qry>>

\* Lines 195-251 of task i when no request fails: the games are fetched,
\* merged and sorted and the output directory exists.
TaskFetched(i) ==
    /\ cli.stage = "group"
    /\ i \in DOMAIN cli.tasks
    /\ cli.tasks[i] = "fetch"
    /\ cli' = [cli EXCEPT !.tasks[i] = "open"]
    /\ UNCHANGED <<scrapeVars, job, qry>>

\* Line 253 of task i: aiofiles.open(outpath, 'w') opens the file of its
\* playlist for writing and truncates it.
TaskOpen(i) ==
    /\ cli.stage = "group"
    /\ i \in DOMAIN cli.tasks
    /\ cli.tasks[i] = "open"
    /\ cli' = [cli EXCEPT !.tasks[i] = "write",
                          !.opened[cli.playlists[i]] = @ + 1]
    /\ UNCHANGED <<scrapeVars, job, qry>>

\* Lines 254-255 of task i: the games are written and the file is closed.
TaskWrite(i) ==
    /\ cli.stage = "group"
    /\ i \in DOMAIN cli.tasks
    /\ cli.tasks[i] = "write"
    /\ cli' = [cli EXCEPT !.tasks[i] = "done"]
    /\ UNCHANGED <<scrapeVars, job, qry>>

\* The TaskGroup is left once every task is done.
SelectDone ==
    /\ cli.stage = "group"
    /\ \A i \in DOMAIN cli.tasks : cli.tasks[i] = "done"
    /\ cli' = [cli EXCEPT !.stage = "done"]
    /\ UNCHANGED <<scrapeVars, job, qry>>

SelectNext ==
    \/ SelectPlaylists
    \/ \E i \in 1 .. MaxRequested : TaskFetched(i)
    \/ \E i \in 1 .. MaxRequested : TaskOpen(i)
    \/ \E i \in 1 .. MaxRequested : TaskWrite(i)
    \/ SelectDone

SelectSpec == SelectInit /\ [][SelectNext]_vars

(* ------------------------- the query command -------------------------- *)

\* The endpoint and the source of the body of a query command line:
\* `query <endpoint> <apicalypse-query>`, or `query multiquery <path>` with
\* `-` for standard input.
QueryCommands ==
    {[endpoint |-> "games", source |-> "argument"],
     [endpoint |-> "multiquery", source |-> "file"],
     [endpoint |-> "multiquery", source |-> "stdin"]}

\* Responses to the request of a query command: any status, with a body
\* that is JSON (the rows asked for, or the catalog's description of an
\* error) or is not.
QueryAnswers == [status : Statuses, body : {"json", "notjson"}]

\* Response.is_success
is_success(status) == status >= 200 /\ status <= 299

\* main is called for a query command line; the credentials are given, by
\* flag or by the environment, or are not.
CmdInit ==
    /\ ScrapeIdle
    /\ job = NoJob
    /\ qry = NoQuery
    /\ \E c \in QueryCommands, given \in BOOLEAN :
          cli = [stage |-> "args", endpoint |-> c.endpoint,
                 source |-> c.source, credentials |-> given,
                 status |-> 0, body |-> "none", error |-> "none",
                 stdout |-> <<>>, stderr |-> <<>>, exit |-> "running"]

\* Lines 111-119: the body of the request is the argument, or is read from
\* the file or from standard input.
CmdReadBody ==
    /\ cli.stage = "args"
    /\ cli' = [cli EXCEPT !.stage = "body"]
    /\ UNCHANGED <<scrapeVars, job, qry>>

\* Line 122: authenticate_igdb raises ValueError without credentials, and
\* otherwise fetches the token, which httpx may fail to.
CmdAuthenticate ==
    /\ cli.stage = "body"
    /\ \/ /\ ~cli.credentials
          /\ cli' = [cli EXCEPT !.stage = "raised", !.error = "ValueError"]
       \/ /\ cli.credentials
          /\ cli' = [cli EXCEPT !.stage = "client"]
       \/ /\ cli.credentials
          /\ \E x \in TransportErrors :
                cli' = [cli EXCEPT !.stage = "raised", !.error = x]
    /\ UNCHANGED <<scrapeVars, job, qry>>

\* Line 123: query_igdb returns the response whatever its status.
CmdResponse(a) ==
    /\ cli.stage = "client"
    /\ cli' = [cli EXCEPT !.stage = "response", !.status = a.status,
                          !.body = a.body]
    /\ UNCHANGED <<scrapeVars, job, qry>>

\* Line 123: client.post raises.
CmdTransportFailure(x) ==
    /\ cli.stage = "client"
    /\ cli' = [cli EXCEPT !.stage = "raised", !.error = x]
    /\ UNCHANGED <<scrapeVars, job, qry>>

\* Lines 124-129: the body is printed to standard output as JSON when it
\* parses as JSON; otherwise the text and the JSONDecodeError are printed
\* to standard error and the error is raised again.
CmdReport ==
    /\ cli.stage = "response"
    /\ cli' = IF cli.body = "json"
              THEN [cli EXCEPT !.stage = "reported",
                               !.stdout = @ \o <<"json">>]
              ELSE [cli EXCEPT !.stage = "raised",
                               !.error = "JSONDecodeError",
                               !.stderr = @ \o <<"body", "error">>]
    /\ UNCHANGED <<scrapeVars, job, qry>>

\* Lines 361-362: asyncio.run returns, or the exception leaves main and the
\* interpreter prints its traceback to standard error.
CmdExit ==
    /\ cli.stage \in {"reported", "raised"}
    /\ cli' = [cli EXCEPT
                  !.stage = "exited",
                  !.exit = exit_status(cli.stage = "raised"),
                  !.stderr = IF cli.stage = "raised"
                             THEN @ \o <<"traceback">> ELSE @]
    /\ UNCHANGED <<scrapeVars, job, qry>>

CmdNext ==
    \/ CmdReadBody
    \/ CmdAuthenticate
    \/ \E a \in QueryAnswers : CmdResponse(a)
    \/ \E x \in TransportErrors : CmdTransportFailure(x)
    \/ CmdReport
    \/ CmdExit

CmdSpec == CmdInit /\ [][CmdNext]_vars

(* ------------------------------- claims ------------------------------- *)

InFlight == {r \in Req : pc[r] \in Holding}

AllDone ==
    /\ \A p \in playlists : pst[p] \in Terminal
    /\ \A r \in Req : pc[r] \in Finished

\* C1 (as claimed): when a playlist of a run has failed, no other playlist
\* of the run is cancelled.
C1_SiblingsNotCancelled ==
    \A p, q \in playlists :
        (p # q /\ pst[p] = "Failed") => pst[q] # "Cancelled"

\* C2 (as claimed): no request is dispatched more than 5 times, whatever
\* the catalog answers.
C2_AtMostFiveDispatches == \A r \in Req : tries[r] <= 5

\* C3: at most MAX_ACTIVE_QUERIES requests hold a slot of the gate, and a
\* caller is suspended in acquire only while no slot is free.
C3_ConcurrencyBound ==
    /\ Cardinality(InFlight) <= MAX_ACTIVE_QUERIES
    /\ (\E r \in Req : pc[r] = "acquire") =>
            Cardinality(InFlight) = MAX_ACTIVE_QUERIES

C3_Witness ==
    /\ Cardinality(InFlight) = MAX_ACTIVE_QUERIES
    /\ \E r \in Req : pc[r] = "acquire"

\* C4: two consecutive admissions by the limiter, of whichever requests
\* and attempts, are at least one period (1/MAX_QUERY_RATE s) apart.
C4_AdmissionSpacing == lastGap >= Interval

C4_Witness ==
    /\ \E r1, r2 \in Req : r1 # r2 /\ tries[r1] >= 1 /\ tries[r2] >= 1
    /\ \E r \in Req : tries[r] >= 2
    /\ lastGap = Interval

BatchFailed(p) ==
    \E r \in Batches(p) :
        \/ pc[r] = "raised"
        \/ pc[r] = "returned" /\ BatchError(resp[r]) # "none"

\* C5 (as claimed): once the task of a playlist has ended, its output file
\* is absent or complete, and it is absent when one of its batches failed.
C5_NoPartialArtifact ==
    \A p \in playlists :
        pst[p] \in Terminal =>
            /\ file[p] \in {"absent", "complete"}
            /\ BatchFailed(p) => file[p] = "absent"

C7_ErrorStatusFailsPlaylist ==
    \A r \in Req :
        (pc[r] = "returned" /\ is_error(resp[r].status)) =>
            /\ tries[r] = nretry[r] + 1
            /\ pst[r[1]] \in {"Fetching", "Failed", "Cancelled"}

\* C8: a request answered k transient statuses and then another status
\* returns that response after exactly k + 1 dispatches.
C8_ReturnsAfterKPlusOne ==
    \A r \in Req :
        pc[r] = "returned" =>
            /\ tries[r] = nretry[r] + 1
            /\ resp[r].status \in Statuses \ TransientStatuses

C8_Witness ==
    \E r \in Req :
        /\ pc[r] = "returned"
        /\ nretry[r] = max_tries - 1
        /\ tries[r] = max_tries
        /\ resp[r].status = 200

\* C9: the slots taken from the semaphore are those of the requests inside
\* `async with request_limit`, whether other requests returned, raised or
\* were cancelled; every slot is free once all tasks have ended.
C9_SlotsMatchDispatches ==
    /\ holds = InFlight
    /\ value = MAX_ACTIVE_QUERIES - Cardinality(InFlight)
    /\ AllDone => value = MAX_ACTIVE_QUERIES

C9_Witness ==
    /\ AllDone
    /\ \E r \in Req : pc[r] = "raised"
    /\ \E r \in Req : pc[r] = "returned"
    /\ \E r \in Req : pc[r] = "cancelled" /\ tries[r] >= 1 /\ nretry[r] = 0

\* C10: a request sleeping between two attempts holds no slot; it leaves
\* the sleep through the gate's entrance, taking a slot anew; and every
\* dispatch, first or retried, is made holding a slot and is an admission
\* by the limiter, which was unlocked or at the end of its period.
C10_RetryReentersGate ==
    [][\A r \in Req :
          /\ pc'[r] = "backoff" => r \notin holds'
          /\ (pc[r] = "backoff" /\ pc'[r] # "backoff") =>
                /\ pc'[r] \in {"acquire", "rate", "flight", "cancelled"}
                /\ pc'[r] \in {"rate", "flight"} =>
                      (r \in holds' /\ value' = value - 1)
          /\ tries'[r] # tries[r] =>
                /\ tries'[r] = tries[r] + 1
                /\ pc'[r] = "flight"
                /\ r \in holds'
                /\ locked' /\ sinceLast' = 0
                /\ locked => sinceLast = Interval]_vars

C10_Witness ==
    \E r \in Req : nretry[r] >= 1 /\ tries[r] >= 1 /\ pc[r] = "rate"

\* C11: a playlist whose games/count response is not JSON, not a JSON
\* object, lacks `count` or has a non-numeric `count` has failed with the
\* error of the validation (the ValueError of lines 199-211, or the status
\* error raise_for_status raises for an error response lacking `count`);
\* it has no multiquery, none of its multiquery requests exists or was
\* dispatched, and it has no output file.
InvalidCountBodies == {"notjson", "notobject", "nocount", "nonnumeric"}

BatchReqs(p) == {r \in Req : r[1] = p /\ r[2] > 0}
Dispatched(p) == {r \in BatchReqs(p) : tries[r] >= 1}

ValidCount(p) ==
    /\ pc[CountReq(p)] = "returned"
    /\ resp[CountReq(p)].body = "count"

\* C14 (as claimed): a playlist whose validated count is 0 has no
\* multiquery request, created or dispatched, and its task ends in
\* Persisted with its file written.
C14_ZeroCountPersists ==
    \A p \in playlists :
        (ValidCount(p) /\ resp[CountReq(p)].count = 0) =>
            /\ \A r \in BatchReqs(p) : pc[r] = "idle" /\ tries[r] = 0
            /\ pst[p] \in Terminal =>
                  (pst[p] = "Persisted" /\ file[p] = "complete")

Ceil(a, b) == (a + b - 1) \div b

\* C15: a playlist with the validated count c that got past gather with
\* no request of its own answered a transient or an error status has
\* dispatched its count request once and ceil(ceil(c / 500) / 20)
\* multiquery requests, once each.
C15_DispatchCounts ==
    \A p \in playlists :
        (/\ ValidCount(p)
         /\ resp[CountReq(p)].status = 200
         /\ pst[p] \in {"MakeDirs", "Open", "Write", "Persisted"}
         /\ \A r \in Req : r[1] = p => nretry[r] = 0) =>
            /\ tries[CountReq(p)] = 1
            /\ Cardinality(Dispatched(p)) =
                  Ceil(Ceil(resp[CountReq(p)].count, 500), 20)
            /\ \A r \in BatchReqs(p) : tries[r] <= 1

C15_Witness ==
    \E p \in playlists :
        /\ ValidCount(p)
        /\ resp[CountReq(p)].count = 1200
        /\ Len(multiqueries[p]) = 1
        /\ Len(multiqueries[p][1]) = 3
        /\ tries[CountReq(p)] = 1
        /\ Cardinality(Dispatched(p)) = 1
        /\ pst[p] = "Persisted"

(* ------------------------ claims of the pipeline ---------------------- *)

Paged == job.stage \in {"paged", "batched", "fetching", "fetched", "merged", "sorted",
                       "written"}
Batched == job.stage \in {"batched", "fetching", "fetched", "merged", "sorted",
                         "written"}

\* C12: the paging windows of a playlist with total_count items and pages
\* of page_size start at 0, are contiguous (each starts where the one
\* before ends) and not empty, hence in strictly increasing offset order
\* and not overlapping; they end at total_count; every window but the last
\* has exactly page_size items and the last has at most page_size.
C12_WindowsCoverCount ==
    Paged =>
        LET W == job.pages
            n == Len(W)
        IN  /\ job.count = 0 <=> n = 0
            /\ n > 0 => (W[1].offset = 0 /\ W[n].offset + W[n].limit = job.count)
            /\ \A i \in 1 .. n :
                  /\ W[i].limit >= 1
                  /\ W[i].limit <= job.page_size
                  /\ i < n => W[i].limit = job.page_size
                  /\ i < n => W[i + 1].offset = W[i].offset + W[i].limit
                  /\ i < n => W[i].offset < W[i + 1].offset

C12_Witness ==
    /\ Paged
    /\ job.page_size = 2
    /\ job.count = 5
    /\ Len(job.pages) = 3
    /\ job.pages[3].limit = 1

\* C13: every multiquery has at most 20 sub-queries, the multiqueries have
\* together as many sub-queries as there are windows, and the sub-queries
\* of the multiqueries, read in order, are the windows in their order.
C13_BatchesPreserveWindows ==
    Batched =>
        LET M == job.multiqueries
            Q == Concat([b \in DOMAIN M |->
                            [i \in DOMAIN M[b] |-> M[b][i].query]])
        IN  /\ \A b \in DOMAIN M : Len(M[b]) >= 1 /\ Len(M[b]) <= 20
            /\ Len(Q) = Len(job.pages)
            /\ Q = job.pages

C13_Witness ==
    /\ Batched
    /\ Len(job.pages) = 45
    /\ Len(job.multiqueries) = 3
    /\ Len(job.multiqueries[3]) = 5

\* C16: when every sub-query was answered with the items of its window,
\* the artifact holds exactly `count` records: every item of the playlist
\* once, with the record the catalog has for it.
C16_ArtifactHasEveryItemOnce ==
    job.stage = "written" =>
        /\ Len(job.artifact) = job.count
        /\ \A i, j \in DOMAIN job.artifact :
              i # j => job.artifact[i].id # job.artifact[j].id
        /\ \A k \in 1 .. job.count :
              \E i \in DOMAIN job.artifact :
                  job.artifact[i] = Item(job.catalog, k)

C16_Witness ==
    /\ job.stage = "written"
    /\ job.count = 45
    /\ job.page_size = 2
    /\ Len(job.multiqueries) = 2
    /\ Len(job.artifact) = 45

\* Ordinal comparison of two names: the first code point in which they
\* differ decides; without one the shorter name is the smaller.
OrdinalLess(a, b) ==
    LET d == {i \in 1 .. Min(Len(a), Len(b)) : a[i] # b[i]}
    IN  IF d = {} THEN Len(a) < Len(b)
        ELSE LET i == CHOOSE x \in d : \A y \in d : x <= y IN a[i] < b[i]

\* Place of a record in the merged list, before the sort.
MergedPlace(x) == CHOOSE k \in DOMAIN job.merged : job.merged[k] = x

\* C17: the persisted list has the records of the merged list, in
\* ascending order of `name` under ordinal comparison (upper case before
\* lower case), records of equal name in the order the merged list had them.
C17_SortedStable ==
    job.stage = "written" =>
        LET A == job.artifact
        IN  /\ Len(A) = Len(job.merged)
            /\ \A k \in DOMAIN job.merged : \E i \in DOMAIN A : A[i] = job.merged[k]
            /\ \A i, j \in DOMAIN A :
                  i < j =>
                    /\ ~OrdinalLess(A[j].name, A[i].name)
                    /\ A[i].name = A[j].name =>
                          MergedPlace(A[i]) < MergedPlace(A[j])

C17_Witness ==
    /\ job.stage = "written"
    /\ job.catalog = <<(<<97>>), (<<66>>), (<<97>>)>>
    /\ job.merged = <<Item(job.catalog, 1), Item(job.catalog, 2), Item(job.catalog, 3)>>
    /\ job.artifact = <<Item(job.catalog, 2), Item(job.catalog, 1), Item(job.catalog, 3)>>

(* ------------------------- claims of the Query ------------------------ *)

\* The text of the k-th clause of a Query, in the order fields, exclude,
\* where, limit, offset, sort, search.
ClauseText(q, k) ==
    CASE k = 1 -> T_FIELDS \o join(<<",">>, q.fields[1])
      [] k = 2 -> T_EXCLUDE \o join(<<",">>, q.exclude[1])
      [] k = 3 -> T_WHERE \o q.where[1]
      [] k = 4 -> T_LIMIT \o str_int(q.limit[1])
      [] k = 5 -> T_OFFSET \o str_int(q.offset[1])
      [] k = 6 -> T_SORT \o q.sort[1][1] \o <<" ">> \o q.sort[1][2]
      [] OTHER -> T_SEARCH \o <<"\"">> \o q.search[1] \o <<"\"">>

\* The clauses a Query has a value for: a limit or an offset that is not
\* None, 0 included; any other value that is neither None nor empty.
PresentClauses(q) ==
    {k \in 1 .. 7 :
        CASE k = 1 -> q.fields # None /\ q.fields[1] # <<>>
          [] k = 2 -> q.exclude # None /\ q.exclude[1] # <<>>
          [] k = 3 -> q.where # None /\ q.where[1] # <<>>
          [] k = 4 -> q.limit # None
          [] k = 5 -> q.offset # None
          [] k = 6 -> q.sort # None
          [] OTHER -> q.search # None /\ q.search[1] # <<>>}

\* The clauses of K in the fixed order, each followed by ";", with a blank
\* between two clauses.
InFixedOrder(q, K) ==
    LET piece(k) ==
            IF k \in K
            THEN ClauseText(q, k) \o <<";">>
                 \o (IF \E j \in K : j > k THEN <<" ">> ELSE <<>>)
            ELSE <<>>
    IN  piece(1) \o piece(2) \o piece(3) \o piece(4) \o piece(5)
        \o piece(6) \o piece(7)

ExampleArgs ==
    [fields  |-> ListArg(<<(<<"a">>), (<<"b">>)>>),
     exclude |-> NoneArg,
     where   |-> Some(<<"x", "=", "1">>),
     limit   |-> Some(10),
     offset  |-> Some(0),
     sort    |-> Some(<<<<"n", "a", "m", "e">>, <<"a", "s", "c">>>>),
     search  |-> None]

ExampleText ==
    <<"f", "i", "e", "l", "d", "s", " ", "a", ",", "b", ";", " ", "w", "h", "e", "r", "e", " ", "x", "=">>
    \o <<"1", ";", " ", "l", "i", "m", "i", "t", " ", "1", "0", ";", " ", "o", "f", "f", "s", "e", "t", " ">>
    \o <<"0", ";", " ", "s", "o", "r", "t", " ", "n", "a", "m", "e", " ", "a", "s", "c", ";">>

\* C18: the text of a Query is its present clauses in the order fields,
\* exclude, where, limit, offset, sort, search, each ended by ";" and
\* separated by a blank (";" alone without a clause); a limit or offset of
\* 0 is rendered; the Query of the example renders to the example's text.
C18_RenderFixedOrder ==
    qry.stage = "rendered" =>
        /\ qry.text =
              (IF PresentClauses(qry.query) = {} THEN <<";">>
               ELSE InFixedOrder(qry.query, PresentClauses(qry.query)))
        /\ qry.text[Len(qry.text)] = ";"
        /\ qry.kwargs = ExampleArgs => qry.text = ExampleText

C18_Witness ==
    /\ qry.stage = "rendered"
    /\ qry.kwargs = ExampleArgs
    /\ qry.query.offset = Some(0)
    /\ qry.text = ExampleText

\* C19 (as claimed): a call of Query with both sort and search other than
\* None raises, and no constructed Query has both other than None.
C19_SortAndSearchRejected ==
    /\ (qry.stage \notin {"none", "args"}
            /\ qry.kwargs.sort # None /\ qry.kwargs.search # None) =>
          (qry.stage = "raised" /\ qry.error = "ValueError")
    /\ qry.stage \in {"constructed", "rendered"} =>
          ~(qry.query.sort # None /\ qry.query.search # None)

\* The call of Query with `fields` and `exclude`, where given, given as
\* the list L, and given as the comma-joined str of L.
WithList(kw, L) ==
    [kw EXCEPT !.fields = IF @.kind = "none" THEN @ ELSE ListArg(L),
               !.exclude = IF @.kind = "none" THEN @ ELSE ListArg(L)]
WithStr(kw, L, pad) ==
    [kw EXCEPT !.fields = IF @.kind = "none" THEN @ ELSE StrArg(JoinPadded(L, pad)),
               !.exclude = IF @.kind = "none" THEN @ ELSE StrArg(JoinPadded(L, pad))]

\* C20 (as claimed): the Query built from a call is the Query built from
\* the same call with the list L for `fields` and `exclude`, and the one
\* built with the comma-joined str of L, and renders as they do.
C20_StrAndListAgree ==
    (qry.stage \in {"constructed", "rendered"} /\ qry.via = "Query") =>
        /\ qry.query = Query(WithList(qry.kwargs, qry.L)).query
        /\ qry.query = Query(WithStr(qry.kwargs, qry.L, qry.pad)).query
        /\ qry.stage = "rendered" =>
              /\ qry.text = render(Query(WithList(qry.kwargs, qry.L)).query)
              /\ qry.text = render(Query(WithStr(qry.kwargs, qry.L, qry.pad)).query)

(* ------------------------ claims of the process ----------------------- *)

\* C21: the scrape process ends with a status other than zero when a
\* playlist of the run Failed, and with the status zero only when every
\* playlist of the run is Persisted.
C21_ExitStatus ==
    exitcode # "running" =>
        /\ (\E p \in playlists : pst[p] = "Failed") => exitcode = "nonzero"
        /\ exitcode = "zero" => \A p \in playlists : pst[p] = "Persisted"

C21_Witness ==
    /\ exitcode = "nonzero"
    /\ \E p, q \in playlists : pst[p] = "Failed" /\ pst[q] = "Persisted"

\* The tasks of a scrape that have the file at `path` open for writing.
Writers(path) ==
    {i \in DOMAIN cli.tasks :
        cli.tasks[i] = "write" /\ outpath(cli.playlists[i]) = path}

\* C22 (as claimed): whatever names a scrape is given, repeated names and
\* several names of one playlist included, no output path is opened for
\* writing more than once and no two tasks write it at the same time.
C22_PathWrittenOnce ==
    cli.stage \in {"group", "done"} =>
        \A p \in Playlists :
            /\ cli.opened[p] <= 1
            /\ Cardinality(Writers(outpath(p))) <= 1

Printed(stream, what) == \E i \in DOMAIN stream : stream[i] = what

\* C23 (as claimed): a query command whose response has a status outside
\* 200..299 prints the body of the response to standard error, prints
\* nothing to standard output and ends with a status other than zero.
C23_ErrorStatusReported ==
    (cli.stage = "exited" /\ cli.status # 0 /\ ~is_success(cli.status)) =>
        /\ Printed(cli.stderr, "body")
        /\ cli.stdout = <<>>
        /\ cli.exit = "nonzero"

(* ---------------------- claims of a playlist's life ------------------- *)

\* The place of a position of fetch_playlist in the order of its lines.
Rank(s) ==
    CASE s = "Pending"        -> 0
      [] s = "CountRequested" -> 1
      [] s = "Fetching"       -> 2
      [] s = "MakeDirs"       -> 3
      [] s = "Open"           -> 4
      [] s = "Write"          -> 5
      [] OTHER                -> 6

\* C24: a playlist only moves forward, from Pending over the count
\* request, the paging, the fetching and the merging to Persisted, or ends
\* as Failed (or cancelled); no multiquery task of it is created or
\* dispatched before its count response was received and validated; the
\* merge starts only when every multiquery task of it has returned; its
\* file is touched only after the merge and the sort; and a playlist that
\* has ended stays as it ended.
C24_ForwardOnly ==
    [][\A p \in Playlists :
          /\ Rank(pst'[p]) >= Rank(pst[p])
          /\ pst[p] \in Terminal => pst'[p] = pst[p]
          /\ \A r \in Req :
                (r[1] = p /\ r[2] > 0) =>
                   /\ (pc[r] = "idle" /\ pc'[r] # "idle") =>
                         /\ pst[p] = "CountRequested"
                         /\ pc'[CountReq(p)] = "returned"
                         /\ CountError(resp'[CountReq(p)]) = "none"
                   /\ tries'[r] > tries[r] =>
                         /\ pst[p] = "Fetching"
                         /\ pc[CountReq(p)] = "returned"
                         /\ CountError(resp[CountReq(p)]) = "none"
          /\ (pst'[p] # pst[p] /\ pst'[p] \in {"MakeDirs", "Open", "Write", "Persisted"}) =>
                /\ \A r \in Batches(p) : pc[r] = "returned"
                /\ multiqueries'[p] # <<>> => GatherError(p) = "none"
          /\ file'[p] # file[p] => pst[p] \in {"Open", "Write"}
      ]_vars

C24_Witness ==
    \E p \in playlists :
        /\ pst[p] = "Persisted"
        /\ Len(multiqueries[p]) = 2
        /\ file[p] = "complete"
        /\ \E q \in playlists : pst[q] = "Failed"

\* The items of the windows of a job in the order the windows and the
\* multiqueries were created in.
InCreationOrder ==
    Concat([b \in DOMAIN job.multiqueries |->
              Concat([i \in DOMAIN job.multiqueries[b] |->
                        Result(job.catalog, job.multiqueries[b][i].query)])])

\* C25: the merged list is the concatenation of the answers to the
\* multiqueries in the order the multiqueries were created in, whatever
\* order their tasks were done in, and so is the same for every such
\* order, and the artifact is that list sorted.
C25_MergeInCreationOrder ==
    /\ job.stage \in {"merged", "sorted", "written"} =>
          job.merged = InCreationOrder
    /\ job.stage = "written" => job.artifact = sort(InCreationOrder)

C25_Witness ==
    /\ job.stage = "written"
    /\ job.done = <<3, 1, 2>>
    /\ job.merged = InCreationOrder
    /\ job.artifact # <<>>

(* --------------------- more claims of the gate ------------------------ *)

\* C26: the limiter admits a caller (a rate token is consumed) only in a
\* step in which a request that holds a slot of the semaphore is
\* dispatched, and never for a request suspended in acquire; a request
\* suspended in acquire has consumed no token but those of its earlier,
\* answered attempts.
C26_TokenOnlyPastTheBound ==
    /\ [](\A w \in Req : pc[w] = "acquire" =>
              (w \notin holds /\ tries[w] = nretry[w]))
    /\ [][(sinceLast' = 0 /\ sinceLast # 0) =>
             /\ \E r \in Req :
                   /\ pc[r] # "acquire"
                   /\ r \in holds'
                   /\ pc'[r] = "flight"
                   /\ tries'[r] = tries[r] + 1
             /\ \A w \in Req : pc[w] = "acquire" => tries'[w] = tries[w]
          ]_vars

C26_Witness ==
    /\ sinceLast = 0
    /\ \E w \in Req : pc[w] = "acquire" /\ tries[w] = 0
    /\ Cardinality({r \in holds : pc[r] = "flight"}) = MAX_ACTIVE_QUERIES

(* ------------------------ claims of the labels ------------------------ *)

\* The windows assigned to the b-th multiquery of the job.
Assigned(b) == batched(job.pages, MULTIQUERY_MAX)[b]

\* The text "<title> (<first>-<last>)".
LabelText(first, last) ==
    Title \o <<" ", "(">> \o str_int(first) \o <<"-">> \o str_int(last) \o <<")">>

\* C27: in every multiquery the labels are pairwise distinct and the label
\* of a sub-query is "<title> (<offset>-<offset+limit-1>)" for the window
\* it requests, so that the multiquery holds one sub-query for each window
\* assigned to it.
C27_LabelsDistinct ==
    Batched =>
        /\ Len(job.multiqueries) = Len(batched(job.pages, MULTIQUERY_MAX))
        /\ \A b \in DOMAIN job.multiqueries :
              LET M == job.multiqueries[b]
              IN  /\ \A i, j \in DOMAIN M : i # j => M[i].label # M[j].label
                  /\ Len(M) = Len(Assigned(b))
                  /\ \A i \in DOMAIN M :
                        /\ M[i].query = Assigned(b)[i]
                        /\ M[i].label =
                              LabelText(M[i].query.offset,
                                        M[i].query.offset + M[i].query.limit - 1)
        /\ (job.page_size = 3 /\ job.count >= 15) =>
              job.multiqueries[1][5].label =
                  <<"D", "O", "S", " ", "(", "1", "2", "-", "1", "4", ")">>

C27_Witness ==
    /\ job.stage = "batched"
    /\ Len(job.multiqueries) = 2
    /\ Len(job.multiqueries[1]) = MULTIQUERY_MAX
    /\ job.multiqueries[2][1].label =
          <<"D", "O", "S", " ", "(", "4", "0", "-", "4", "1", ")">>

(* ---------------------- claims of the page queries -------------------- *)

\* C28: the scrape leaves the Query of the playlist as it was built, with
\* its offset and its limit; the count query and the Query of every page
\* carry its `where`; and the Query of a page differs from it in offset
\* and limit only, which are those of the page's window.
C28_BaseQueryUnchanged ==
    job.stage # "none" =>
        /\ \E w \in Wheres :
              /\ job.query = PlaylistQuery(w, job.page_size)
              /\ job.query.where = Some(w)
        /\ job.query.offset = Some(0)
        /\ job.query.limit = Some(job.page_size)
        /\ job.count_query.where = job.query.where
        /\ Paged =>
              /\ Len(job.queries) = Len(job.pages)
              /\ \A k \in DOMAIN job.queries :
                    /\ job.queries[k].where = job.query.where
                    /\ \A f \in {"fields", "exclude", "where", "sort", "search"} :
                          job.queries[k][f] = job.query[f]
                    /\ job.queries[k].offset = Some(job.pages[k].offset)
                    /\ job.queries[k].limit = Some(job.pages[k].limit)

C28_Witness ==
    /\ job.stage = "written"
    /\ Len(job.queries) = 3
    /\ job.queries[3].offset = Some(4)
    /\ job.queries[3].limit = Some(1)
    /\ job.queries[3].where = Some(<<"p", "=", "2">>)
    /\ job.query.offset = Some(0)
    /\ job.query.limit = Some(2)

(* ------------------- claims of the multiquery responses --------------- *)

\* C29 (as claimed): a multiquery response with status 200 whose body is
\* not an array of sub-results with a `result` array each is not retried,
\* and its playlist does not get past the gather: it fails (or waits for
\* the other responses, or is cancelled) and no file is written for it.
C29_MalformedBatchFails ==
    \A r \in Req :
        (/\ r[2] > 0
         /\ pc[r] = "returned"
         /\ resp[r].status = 200
         /\ resp[r].body \in MalformedBatchBodies) =>
            /\ tries[r] = nretry[r] + 1
            /\ pst[r[1]] \in {"Fetching", "Failed", "Cancelled"}
            /\ file[r[1]] = "absent"

(* ------------------------ claims of termination ----------------------- *)

\* C30 (as claimed): when every request that is posted gets a response or
\* an exception and every task that can run does, every playlist of the
\* run comes to an end, whatever the catalog answers, a transient status
\* for ever included: it ends Persisted or Failed, or, where a sibling
\* failed, cancelled with it.
C30_EveryPlaylistEnds ==
    \A p \in Playlists : <>(p \in playlists => pst[p] \in Terminal)

(* ------------------------- claims of admission ------------------------ *)

Waiting == {"acquire", "woken", "rate"}

\* C31: the gate never deadlocks and a suspended caller starves nobody.
\* A playlist task that waits for its batches holds no slot, its count
\* request having returned; and when every posted request gets its response
\* or exception and every ready task runs, every caller that waits for a
\* slot or for the limiter is let through to its dispatch, unless the task
\* group cancels it first.
C31_WaitersAdmitted ==
    /\ [](\A p \in Playlists :
            pst[p] = "Fetching" =>
               /\ pc[CountReq(p)] = "returned"
               /\ CountReq(p) \notin holds)
    /\ \A r \in Req :
          (pc[r] \in Waiting) ~> (pc[r] \in {"flight", "cancelled"})

\* More callers than slots: both slots are taken, one of them by a batch in
\* flight whose playlist waits in gather, and another caller is suspended
\* in acquire.
C31_Witness ==
    \E r \in Req, w \in Req :
       /\ r[2] > 0
       /\ pst[r[1]] = "Fetching"
       /\ pc[r] = "flight"
       /\ tries[r] > 1
       /\ w # r
       /\ pc[w] = "acquire"
       /\ value = 0
       /\ Cardinality(holds) = MAX_ACTIVE_QUERIES

(* ----------------------- claims of normalization ---------------------- *)

\* A tuple of field paths without a repeated entry.
DuplicateFree(opt) ==
    opt # None =>
        \A i \in DOMAIN opt[1], j \in DOMAIN opt[1] :
            i # j => opt[1][i] # opt[1][j]

\* How often the path f occurs in the rendered clause of the tuple opt.
Occurrences(opt, f) ==
    IF opt = None THEN 0
    ELSE Cardinality({i \in DOMAIN opt[1] : opt[1][i] = f})

\* C32 (as claimed): the normalized `fields` and `exclude` of every
\* constructed Query are duplicate-free: a field path given more than once
\* in the input is in the normalized tuple, and so in the rendered clause,
\* exactly once.
C32_FieldsDuplicateFree ==
    qry.stage \in {"constructed", "rendered"} =>
        /\ DuplicateFree(qry.query.fields)
        /\ DuplicateFree(qry.query.exclude)
        /\ \A f \in FieldPaths :
              /\ Occurrences(qry.query.fields, f) <= 1
              /\ Occurrences(qry.query.exclude, f) <= 1

====
